---- MODULE Spec2Model ----
(***************************************************************************)
(* A model of automation/vapoursynth/aegisub_vs.py: the helper functions   *)
(* the VapourSynth providers of Aegisub offer to scripts.                  *)
(*                                                                         *)
(* A Python str is a sequence of one-character strings.  A call is         *)
(* observed through arg (what it was called with) and ret (what it         *)
(* returned or raised); plugins and fs are the environment the functions   *)
(* read and change: the VapourSynth plugins installed and the keyframes    *)
(* files on disk.                                                          *)
(***************************************************************************)
EXTENDS Integers, Sequences, FiniteSets, TLC

VARIABLES pc, arg, ret, plugins, fs, ran

vars == <<pc, arg, ret, plugins, fs, ran>>

\* ------------------------------------------------------------------------
\* Bounds of the model

\* longest filename enumerated character by character (cache filenames)
MaxShort == 3
\* longest filename enumerated character by character (keyframes filenames)
MaxName == 4
\* how far the long filenames reach on either side of the truncation range
Margin == 2
\* most frames of an index file
MaxFrames == 3
\* most frames of an index file that is then damaged
MaxBaseFrames == 1
\* longest TimeBase field enumerated character by character
MaxTb == 3
\* most frames of a clip
MaxClipFrames == 1

\* ------------------------------------------------------------------------
\* Python values

Alphabet == {"a", ".", "/", "\\", ":"}

\* every str over cs of length at most n
Strings(cs, n) == UNION {[1..k -> cs] : k \in 0..n}

Str_lwi == <<".", "l", "w", "i">>
Str_keyframes_txt ==
    <<" ", "k", "e", "y", "f", "r", "a", "m", "e", "s", ".", "t", "x", "t">>

None == [kind |-> "none", val |-> <<>>, exc |-> ""]
Return(v) == [kind |-> "ok", val |-> v, exc |-> ""]
Raise(e) == [kind |-> "raise", val |-> <<>>, exc |-> e]

\* s[-k:] for k > 0: the last k characters, or all of s when it is shorter
LastChars(s, k) == IF Len(s) <= k THEN s ELSE SubSeq(s, Len(s) - k + 1, Len(s))

\* s[:k] for 0 <= k <= len(s)
FirstChars(s, k) == SubSeq(s, 1, k)

\* s[::-1]
Reversed(s) == [i \in 1..Len(s) |-> s[Len(s) + 1 - i]]

\* s.find(c): the zero-based place of the first c in s, or -1
Find(s, c) ==
    IF \E i \in 1..Len(s) : s[i] = c
    THEN (CHOOSE i \in 1..Len(s) : s[i] = c /\ \A j \in 1..(i - 1) : s[j] # c) - 1
    ELSE -1

\* ------------------------------------------------------------------------
\* make_lwi_cache_filename

max_len == 254

extension == Str_lwi

\* variant: the drive colon is kept
ReplaceSepKeepColon(c) == IF c \in {"/", "\\"} THEN "_" ELSE c

\* ("_" if c in "/\\:" else c)
ReplaceSep(c) == IF c \in {"/", "\\", ":"} THEN "_" ELSE c

make_lwi_cache_filename(filename) ==
    LET cut == IF Len(filename) + Len(extension) > max_len
               THEN LastChars(filename, max_len + Len(extension))
               ELSE filename
    IN  [i \in 1..Len(cut) |-> ReplaceSep(cut[i])] \o extension

\* ------------------------------------------------------------------------
\* make_keyframes_filename

make_keyframes_filename(filename) ==
    LET extlen == Find(Reversed(filename), ".") + 1
    IN  FirstChars(filename, Len(filename) - extlen) \o Str_keyframes_txt

\* ------------------------------------------------------------------------
\* The lines of an index file.  A line is told apart by which of the
\* patterns it matches (kind) and carries the fields the code reads from it.

Line(kind, pts, key, tb) == [kind |-> kind, pts |-> pts, key |-> key, tb |-> tb]

\* the line "</StreamInfo>"
StreamInfoEnd == Line("</StreamInfo>", 0, 0, <<>>)
\* the line "</LibavReaderIndex>"
LibavReaderIndexEnd == Line("</LibavReaderIndex>", 0, 0, <<>>)
\* a line "Index=..,POS=..,PTS=<pts>,DTS=..,EDI=.."
IndexLine(pts) == Line("Index", pts, 0, <<>>)
\* a line "Key=<key>,Pic=..,POC=..,Repeat=..,Field=.."
KeyLine(key) == Line("Key", 0, key, <<>>)
\* a line "Codec=..,TimeBase=<tb>,Width=..,Height=..,Format=..,ColorSpace=.."
CodecLine(tb) == Line("Codec", 0, 0, tb)
\* any other line
OtherLine == Line("other", 0, 0, <<>>)

\* lwindex_re1.match(line)
lwindex_re1(line) == line.kind = "Index"
\* lwindex_re2.match(line)
lwindex_re2(line) == line.kind = "Key"
\* streaminfo_re.match(line): TimeBase is [0-9\/]+
streaminfo_re(line) == line.kind = "Codec" /\ Len(line.tb) > 0

\* seq[i] of Python, i counted from 0, a negative i from the end
PyAt(seq, i) == IF i >= 0 THEN seq[i + 1] ELSE seq[Len(seq) + i + 1]

\* seq[i:j] of Python for 0 <= i <= j: clamped to the end of seq
PySlice(seq, i, j) ==
    SubSeq(seq, i + 1, IF j > Len(seq) THEN Len(seq) ELSE j)

\* list.index(x): the zero-based place of the first x; the caller checks
\* that there is one
PyIndex(seq, x) ==
    (CHOOSE i \in 1..Len(seq) : seq[i] = x /\ \A j \in 1..(i - 1) : seq[j] # x) - 1

Contains(seq, x) == \E i \in 1..Len(seq) : seq[i] = x

Digits == <<"0", "1", "2", "3", "4", "5", "6", "7", "8", "9">>

DigitValue(c) == (CHOOSE d \in 1..10 : Digits[d] = c) - 1

\* int(s) of a string of digits; int("") raises ValueError, which the caller
\* checks first
RECURSIVE PyInt(_)
PyInt(s) ==
    IF s = <<>> THEN 0
    ELSE 10 * PyInt(SubSeq(s, 1, Len(s) - 1)) + DigitValue(s[Len(s)])

\* s.split("/")
RECURSIVE Split(_)
Split(s) ==
    IF ~Contains(s, "/") THEN <<s>>
    ELSE LET i == PyIndex(s, "/")
         IN  <<SubSeq(s, 1, i)>> \o Split(SubSeq(s, i + 2, Len(s)))

\* ------------------------------------------------------------------------
\* LWIndexFrame

\* LWIndexFrame(raw) raises ValueError
FrameFails(raw) == ~lwindex_re1(raw[1]) \/ ~lwindex_re2(raw[2])

\* the fields of LWIndexFrame(raw)
LWIndexFrame(raw) == [pts |-> raw[1].pts, key |-> raw[2].key]

\* ------------------------------------------------------------------------
\* info_from_lwindex

\* variant: an unstable sort, f goes before the frames of equal pts
InsertBeforeEqual(sorted, f) ==
    LET k == Cardinality({i \in 1..Len(sorted) : sorted[i].pts < f.pts})
    IN  SubSeq(sorted, 1, k) \o <<f>> \o SubSeq(sorted, k + 1, Len(sorted))

\* variant: the frames are left in the order of the file
AppendUnsorted(sorted, f) == Append(sorted, f)

\* f put into a list sorted by int(frame): behind every frame whose pts
\* is not larger
InsertByPts(sorted, f) ==
    LET k == Cardinality({i \in 1..Len(sorted) : sorted[i].pts <= f.pts})
    IN  SubSeq(sorted, 1, k) \o <<f>> \o SubSeq(sorted, k + 1, Len(sorted))

\* frames.sort(key=int): list.sort is stable
RECURSIVE SortFrames(_)
SortFrames(frames) ==
    IF frames = <<>> THEN <<>>
    ELSE InsertByPts(SortFrames(SubSeq(frames, 1, Len(frames) - 1)),
                     frames[Len(frames)])

\* variant: division that rounds towards zero
TruncatingTimecode(pts, num, den) ==
    LET x == pts * 1000 * num
    IN  IF x >= 0 THEN x \div den ELSE -((-x) \div den)

\* (f.pts * 1000 * timebase_num) // timebase_den, for timebase_den > 0
Timecode(pts, num, den) == (pts * 1000 * num) \div den

\* range(indexstart, indexend, 2)
BlockStarts(indexstart, indexend) ==
    {i \in indexstart..(indexend - 1) : (i - indexstart) % 2 = 0}

\* the blocks in the order of the list comprehension
BlockSeq(index, indexstart, indexend) ==
    LET n == Cardinality(BlockStarts(indexstart, indexend))
    IN  [k \in 1..n |-> PySlice(index, indexstart + 2 * (k - 1),
                                       indexstart + 2 * (k - 1) + 2)]

info_from_lwindex(index) ==
    IF ~Contains(index, StreamInfoEnd) \/ ~Contains(index, LibavReaderIndexEnd)
    THEN Raise("ValueError")
    ELSE
    LET indexstart == PyIndex(index, StreamInfoEnd) + 1
        indexend == PyIndex(index, LibavReaderIndexEnd)
        blocks == BlockSeq(index, indexstart, indexend)
        n == Len(blocks)
    IN
    IF \E k \in 1..n : Len(blocks[k]) < 2 THEN Raise("IndexError")
    ELSE IF \E k \in 1..n : FrameFails(blocks[k]) THEN Raise("ValueError")
    ELSE
    LET frames == SortFrames([k \in 1..n |-> LWIndexFrame(blocks[k])])
        line == PyAt(index, indexstart - 2)
    IN
    IF ~streaminfo_re(line) THEN Raise("ValueError")
    ELSE
    LET parts == Split(line.tb)
    IN
    IF \E k \in 1..Len(parts) : parts[k] = <<>> THEN Raise("ValueError")
    ELSE IF Len(parts) # 2 THEN Raise("ValueError")
    ELSE
    LET timebase_num == PyInt(parts[1])
        timebase_den == PyInt(parts[2])
    IN
    IF n > 0 /\ timebase_den = 0 THEN Raise("ZeroDivisionError")
    ELSE Return([timecodes |-> [k \in 1..n |->
                                  Timecode(frames[k].pts, timebase_num, timebase_den)],
                 keyframes |-> LET keyed == {k \in 1..n : frames[k].key # 0}
                               IN  [j \in 1..Cardinality(keyed) |->
                                      (CHOOSE k \in keyed :
                                          Cardinality({m \in keyed : m < k}) = j - 1) - 1]])

\* ------------------------------------------------------------------------
\* make_keyframes.  installed is the set of plugins core has; flags is what
\* the scene-change detector finds, frame by frame, on this clip.

\* core.resize.Bilinear(clip, width=.., height=.., format=..)
Bilinear(clip, width, height) == [clip EXCEPT !.width = width, !.height = height]

\* variant: use_scxvid is ignored
AlwaysWwxd(use_scxvid) == "wwxd"

\* the plugin make_keyframes asks core for: core.scxvid if use_scxvid else
\* core.wwxd
DetectorPlugin(use_scxvid) == IF use_scxvid THEN "scxvid" ELSE "wwxd"

\* core.scxvid.Scxvid(clip): every frame gets the property _SceneChangePrev
Scxvid(clip, flags) ==
    [n \in 0..(clip.num_frames - 1) |-> [p \in {"_SceneChangePrev"} |-> flags[n]]]

\* core.wwxd.WWXD(clip): every frame gets the property Scenechange
WWXD(clip, flags) ==
    [n \in 0..(clip.num_frames - 1) |-> [p \in {"Scenechange"} |-> flags[n]]]

\* vs.Error("To use the keyframe generation, the ... plugin for VapourSynth
\* must be installed"), the plugin's name without its quotes
MissingPlugin(use_scxvid) ==
    IF use_scxvid
    THEN "vs.Error: To use the keyframe generation, the scxvid plugin for VapourSynth must be installed"
    ELSE "vs.Error: To use the keyframe generation, the wwxd plugin for VapourSynth must be installed"

\* [n for n in range(num_frames) if keyframes[n]]
FlaggedFrames(num_frames, keyframes) ==
    LET flagged == {n \in 0..(num_frames - 1) : keyframes[n] # 0}
    IN  [j \in 1..Cardinality(flagged) |->
            CHOOSE n \in flagged : Cardinality({m \in flagged : m < n}) = j - 1]

\* ret is what the call returns or raises; drained tells whether the frames
\* of the detector's clip were requested (the deque(...) line was reached)
make_keyframes(installed, clip, use_scxvid, resize_h, flags) ==
    LET resized == Bilinear(clip, (resize_h * clip.width) \div clip.height, resize_h)
    IN  IF DetectorPlugin(use_scxvid) \notin installed
        THEN [ret |-> Raise(MissingPlugin(use_scxvid)), drained |-> FALSE]
        ELSE LET frames == IF use_scxvid
                           THEN Scxvid(resized, flags)
                           ELSE WWXD(resized, flags)
                 keyframes == [n \in 0..(resized.num_frames - 1) |->
                                 IF use_scxvid THEN frames[n]["_SceneChangePrev"]
                                               ELSE frames[n]["Scenechange"]]
             IN  [ret |-> Return(FlaggedFrames(resized.num_frames, keyframes)),
                  drained |-> TRUE]

\* ------------------------------------------------------------------------
\* save_keyframes.  files maps the paths that exist to the lines they hold.

Str_keyframe_format_v1 ==
    <<"#", " ", "k", "e", "y", "f", "r", "a", "m", "e", " ",
      "f", "o", "r", "m", "a", "t", " ", "v", "1">>
Str_fps_0 == <<"f", "p", "s", " ", "0">>

\* f"{n}" for n >= 0
RECURSIVE Decimal(_)
Decimal(n) ==
    IF n < 10 THEN <<Digits[n + 1]>>
    ELSE Decimal(n \div 10) \o <<Digits[(n % 10) + 1]>>

save_keyframes(files, filename, keyframes) ==
    LET lines == <<Str_keyframe_format_v1, Str_fps_0>>
                   \o [j \in 1..Len(keyframes) |-> Decimal(keyframes[j])]
    IN  [p \in DOMAIN files \cup {filename} |->
            IF p = filename THEN lines ELSE files[p]]

\* ------------------------------------------------------------------------
\* get_keyframes

\* variant: the keyframes file is made again on every call
NeverExists(files, path) == FALSE

\* os.path.exists(path)
Exists(files, path) == path \in DOMAIN files

\* ret, the files afterwards, and whether the detector's frames were requested
get_keyframes(files, installed, filename, clip, use_scxvid, resize_h, flags) ==
    LET kffilename == make_keyframes_filename(filename)
    IN  IF ~Exists(files, kffilename)
        THEN LET made == make_keyframes(installed, clip, use_scxvid, resize_h, flags)
             IN  IF made.ret.kind = "raise"
                 THEN [ret |-> made.ret, files |-> files, drained |-> made.drained]
                 ELSE [ret |-> Return(kffilename),
                       files |-> save_keyframes(files, kffilename, made.ret.val),
                       drained |-> made.drained]
        ELSE [ret |-> Return(kffilename), files |-> files, drained |-> FALSE]

\* ------------------------------------------------------------------------
\* check_audio.  opens tells whether BestAudioSource can open the file.

\* vs.core.bas.Source(source=filename)
BasSource(installed, opens) ==
    IF "bas" \notin installed THEN Raise("AttributeError")
    ELSE IF opens THEN Return("AudioNode")
    ELSE Raise("vs.Error")

\* variant: a missing bas plugin is not caught
CaughtWithoutAttributeError == {"vs.Error"}

\* the exceptions check_audio catches
Caught == {"AttributeError", "vs.Error"}

check_audio(installed, opens) ==
    LET source == BasSource(installed, opens)
    IN  IF source.kind = "ok" THEN Return(TRUE)
        ELSE IF source.exc \in Caught THEN Return(FALSE)
        ELSE source

\* ------------------------------------------------------------------------
\* The filenames the two filename functions are called with

Example_a_b_c_mkv == <<"a", "/", "b", "/", "c", ".", "m", "k", "v">>
Example_path_to_file_mkv ==
    <<"p", "a", "t", "h", "/", "t", "o", "/", "f", "i", "l", "e", ".", "m", "k", "v">>

Pattern == <<"a", "/", "b", ":", "c", "\\", "d">>

\* a filename of n characters: a periodic head, then tail
LongName(n, tail) ==
    [i \in 1..n |-> IF i <= n - Len(tail)
                    THEN Pattern[(i % Len(Pattern)) + 1]
                    ELSE tail[i - (n - Len(tail))]]

\* the lengths within margin of those at which the code cuts
LongLens(margin) ==
    (max_len - Len(extension) - margin)..(max_len + Len(extension) + margin)

\* short filenames, every one of them, and long ones
CacheInputs(short, margin) ==
    Strings(Alphabet, short) \cup {Example_a_b_c_mkv}
        \cup {LongName(n, t) : n \in LongLens(margin), t \in Strings(Alphabet, short)}

NameInputs(n) == Strings(Alphabet, n) \cup {Example_path_to_file_mkv}

NoFiles == <<>>

\* ------------------------------------------------------------------------
\* SpecCache: one call of make_lwi_cache_filename

InitCache ==
    /\ pc = "call"
    /\ arg \in CacheInputs(MaxShort, Margin)
    /\ ret = None
    /\ plugins = {}
    /\ fs = NoFiles
    /\ ran = FALSE

MakeLwiCacheFilename ==
    /\ pc = "call"
    /\ pc' = "done"
    /\ ret' = Return(make_lwi_cache_filename(arg))
    /\ UNCHANGED <<arg, plugins, fs, ran>>

NextCache == MakeLwiCacheFilename

SpecCache == InitCache /\ [][NextCache]_vars

\* ------------------------------------------------------------------------
\* SpecName: one call of make_keyframes_filename

InitName ==
    /\ pc = "call"
    /\ arg \in NameInputs(MaxName)
    /\ ret = None
    /\ plugins = {}
    /\ fs = NoFiles
    /\ ran = FALSE

MakeKeyframesFilename ==
    /\ pc = "call"
    /\ pc' = "done"
    /\ ret' = Return(make_keyframes_filename(arg))
    /\ UNCHANGED <<arg, plugins, fs, ran>>

NextName == MakeKeyframesFilename

SpecName == InitName /\ [][NextName]_vars

\* ------------------------------------------------------------------------
\* The index files info_from_lwindex is called with

PTSs == {-1, 0, 20, 40}
Keys == {0, 1}
TbChars == {"0", "1", "3", "/"}

Tb_1_1000 == <<"1", "/", "1", "0", "0", "0">>
Tb_1_3 == <<"1", "/", "3">>
GoodTimeBases == {Tb_1_1000, Tb_1_3}
TimeBases(n) == (Strings(TbChars, n) \ {<<>>}) \cup GoodTimeBases

Frames == [pts : PTSs, key : Keys]
FrameSeqs(n) == UNION {[1..k -> Frames] : k \in 0..n}

\* the two lines of each frame, in the order of the file
FrameLines(frames) ==
    [i \in 1..(2 * Len(frames)) |->
        IF i % 2 = 1 THEN IndexLine(frames[(i + 1) \div 2].pts)
                     ELSE KeyLine(frames[i \div 2].key)]

\* an index file as the indexer writes it
WrittenFile(head, tb, frames) ==
    head \o <<CodecLine(tb), StreamInfoEnd>> \o FrameLines(frames)
         \o <<LibavReaderIndexEnd>>

Heads == {<<>>, <<OtherLine>>}

\* up to frames frames under a good time base, and no frame or one under
\* every TimeBase field of up to tblen characters
WrittenFiles(frames, tblen) ==
    {WrittenFile(<<OtherLine>>, tb, fr) : tb \in GoodTimeBases, fr \in FrameSeqs(frames)}
      \cup {WrittenFile(h, tb, fr) : h \in Heads, tb \in TimeBases(tblen),
                                     fr \in {<<>>, <<[pts |-> -1, key |-> 1]>>}}

\* the files that are then damaged
BaseFiles(few) ==
    {WrittenFile(h, tb, fr) : h \in Heads, tb \in GoodTimeBases, fr \in FrameSeqs(few)}

LineSamples ==
    {StreamInfoEnd, LibavReaderIndexEnd, OtherLine, IndexLine(0), KeyLine(2),
     CodecLine(Tb_1_3)}

Without(f, i) == SubSeq(f, 1, i - 1) \o SubSeq(f, i + 1, Len(f))
With(f, i, l) == [f EXCEPT ![i] = l]
FirstToEnd(f) == SubSeq(f, 2, Len(f)) \o <<f[1]>>

DamagedFiles(few) ==
    UNION {{Without(f, i) : i \in 1..Len(f)}
             \cup {With(f, i, l) : i \in 1..Len(f), l \in LineSamples}
             \cup {FirstToEnd(f)} : f \in BaseFiles(few)}

IndexInputs(frames, few, tblen) ==
    WrittenFiles(frames, tblen) \cup DamagedFiles(few)

\* ------------------------------------------------------------------------
\* SpecIndex: one call of info_from_lwindex on the lines of the index file

InitIndex ==
    /\ pc = "call"
    /\ arg \in IndexInputs(MaxFrames, MaxBaseFrames, MaxTb)
    /\ ret = None
    /\ plugins = {}
    /\ fs = NoFiles
    /\ ran = FALSE

InfoFromLwindex ==
    /\ pc = "call"
    /\ pc' = "done"
    /\ ret' = info_from_lwindex(arg)
    /\ UNCHANGED <<arg, plugins, fs, ran>>

NextIndex == InfoFromLwindex

SpecIndex == InitIndex /\ [][NextIndex]_vars

\* ------------------------------------------------------------------------
\* SpecKeyframes: a script calling make_keyframes, get_keyframes and
\* check_audio, any number of times, with the plugins its core has

Plugins == {"scxvid", "wwxd", "bas"}

\* resize_h of make_keyframes
resize_h_default == 360

Clips(n) == [num_frames : 0..n, width : {640}, height : {480}]

\* what a detector may find on a clip
FlagsOf(clip) == [0..(clip.num_frames - 1) -> {0, 1}]

VideoNames == {<<"a", ".", "a">>, <<"a">>, <<".", "a">>}

Call(op, filename, use_scxvid, opens) ==
    [op |-> op, filename |-> filename, use_scxvid |-> use_scxvid, opens |-> opens]

InitKeyframes ==
    /\ pc = "script"
    /\ arg = Call("none", <<>>, FALSE, FALSE)
    /\ ret = None
    /\ plugins \in SUBSET Plugins
    /\ fs = NoFiles
    /\ ran = FALSE

MakeKeyframes(clip, use_scxvid, flags) ==
    LET made == make_keyframes(plugins, clip, use_scxvid, resize_h_default, flags)
    IN  /\ arg' = Call("make_keyframes", <<>>, use_scxvid, FALSE)
        /\ ret' = made.ret
        /\ ran' = made.drained
        /\ UNCHANGED <<pc, plugins, fs>>

GetKeyframes(filename, clip, use_scxvid, flags) ==
    LET got == get_keyframes(fs, plugins, filename, clip, use_scxvid,
                             resize_h_default, flags)
    IN  /\ arg' = Call("get_keyframes", filename, use_scxvid, FALSE)
        /\ ret' = got.ret
        /\ fs' = got.files
        /\ ran' = got.drained
        /\ UNCHANGED <<pc, plugins>>

CheckAudio(filename, opens) ==
    /\ arg' = Call("check_audio", filename, FALSE, opens)
    /\ ret' = check_audio(plugins, opens)
    /\ ran' = FALSE
    /\ UNCHANGED <<pc, plugins, fs>>

NextKeyframes ==
    \/ \E clip \in Clips(MaxClipFrames), use_scxvid \in BOOLEAN :
          \E flags \in FlagsOf(clip) : MakeKeyframes(clip, use_scxvid, flags)
    \/ \E filename \in VideoNames, clip \in Clips(MaxClipFrames), use_scxvid \in BOOLEAN :
          \E flags \in FlagsOf(clip) : GetKeyframes(filename, clip, use_scxvid, flags)
    \/ \E filename \in VideoNames, opens \in BOOLEAN : CheckAudio(filename, opens)

SpecKeyframes == InitKeyframes /\ [][NextKeyframes]_vars

\* ------------------------------------------------------------------------
\* Properties of make_lwi_cache_filename

\* C1: a filename with len(filename) + len(".lwi") > 254 is cut from the
\* front: the result is some trailing characters of the input (separators
\* replaced), then ".lwi", and is at most 254 characters long.
C1_TruncatedWithinMaxLen ==
    (pc = "done" /\ Len(arg) + 4 > 254) =>
        /\ \E k \in 0..Len(arg) :
              ret.val = [i \in 1..k |-> ReplaceSep(arg[Len(arg) - k + i])] \o Str_lwi
        /\ Len(ret.val) <= 254

\* C2: a filename with len(filename) + 4 <= 254 comes back character by
\* character, '/', '\' and ':' replaced by '_', followed by ".lwi": the
\* result is 4 longer than the input and holds no separator
\* (a/b/c.mkv gives a_b_c.mkv.lwi).
C2_ShortNameMapped ==
    (pc = "done" /\ Len(arg) + 4 <= 254) =>
        /\ ret.kind = "ok"
        /\ Len(ret.val) = Len(arg) + 4
        /\ \A i \in 1..Len(arg) :
              ret.val[i] = (IF arg[i] = "/" \/ arg[i] = "\\" \/ arg[i] = ":"
                            THEN "_" ELSE arg[i])
        /\ SubSeq(ret.val, Len(arg) + 1, Len(arg) + 4) = <<".", "l", "w", "i">>
        /\ \A i \in 1..Len(ret.val) : ret.val[i] \notin {"/", "\\", ":"}
        /\ arg = Example_a_b_c_mkv =>
              ret.val = <<"a", "_", "b", "_", "c", ".", "m", "k", "v",
                          ".", "l", "w", "i">>

C2_Witness ==
    /\ pc = "done"
    /\ arg = <<"/", ":", "\\">>
    /\ ret.val = <<"_", "_", "_", ".", "l", "w", "i">>

\* ------------------------------------------------------------------------
\* Properties of make_keyframes_filename

\* the file name of a path: what follows its last '/'
FileNameStart(path) ==
    IF \E i \in 1..Len(path) : path[i] = "/"
    THEN (CHOOSE i \in 1..Len(path) :
              path[i] = "/" /\ \A j \in (i + 1)..Len(path) : path[j] # "/") + 1
    ELSE 1

\* C7: the result is the path up to, and without, the last '.' of its file
\* name, or the whole path when the file name holds no '.', followed by
\* " keyframes.txt"; the directory part is kept whatever it holds.
C7_ExtensionOfFileNameRemoved ==
    pc = "done" =>
        LET start == FileNameStart(arg)
            dots == {i \in start..Len(arg) : arg[i] = "."}
            stem == IF dots = {} THEN arg
                    ELSE SubSeq(arg, 1, (CHOOSE i \in dots : \A j \in dots : j <= i) - 1)
        IN  ret = Return(stem \o Str_keyframes_txt)

\* ------------------------------------------------------------------------
\* Properties of info_from_lwindex

\* the 1-based place of the first line equal to x (0 when there is none)
FirstPlace(f, x) ==
    IF \E i \in 1..Len(f) : f[i] = x
    THEN CHOOSE i \in 1..Len(f) : f[i] = x /\ \A j \in 1..(i - 1) : f[j] # x
    ELSE 0

HasMarkers(f) ==
    FirstPlace(f, StreamInfoEnd) > 0 /\ FirstPlace(f, LibavReaderIndexEnd) > 0

\* the 1-based places where the two-line frame blocks between the markers start
BlockPlaces(f) ==
    {i \in (FirstPlace(f, StreamInfoEnd) + 1)..(FirstPlace(f, LibavReaderIndexEnd) - 1) :
        (i - FirstPlace(f, StreamInfoEnd)) % 2 = 1}

BlockMatches(f, i) ==
    /\ i + 1 <= Len(f)
    /\ f[i].kind = "Index"
    /\ f[i + 1].kind = "Key"

\* the line before "</StreamInfo>" is a StreamInfo line
HasStreamInfoLine(f) ==
    /\ FirstPlace(f, StreamInfoEnd) > 1
    /\ f[FirstPlace(f, StreamInfoEnd) - 1].kind = "Codec"

TimeBaseOf(f) == f[FirstPlace(f, StreamInfoEnd) - 1].tb

IsNumber(s) == Len(s) > 0 /\ \A i \in 1..Len(s) : s[i] # "/"

\* tb is <digits>/<digits>
IsRational(tb) ==
    \E i \in 1..Len(tb) :
        /\ tb[i] = "/"
        /\ IsNumber(SubSeq(tb, 1, i - 1))
        /\ IsNumber(SubSeq(tb, i + 1, Len(tb)))

Numerator(tb) == PyInt(SubSeq(tb, 1, FirstPlace(tb, "/") - 1))
Denominator(tb) == PyInt(SubSeq(tb, FirstPlace(tb, "/") + 1, Len(tb)))

ValidIndex(f) ==
    /\ HasMarkers(f)
    /\ \A i \in BlockPlaces(f) : BlockMatches(f, i)
    /\ HasStreamInfoLine(f)
    /\ IsRational(TimeBaseOf(f))
    /\ Denominator(TimeBaseOf(f)) > 0

\* the frames of a valid index file, in the order of the file
FileFrames(f) ==
    LET first == FirstPlace(f, StreamInfoEnd) + 1
    IN  [k \in 1..Cardinality(BlockPlaces(f)) |->
            [pts |-> f[first + 2 * (k - 1)].pts, key |-> f[first + 2 * k - 1].key]]

NonDecreasing(s) == \A i \in 1..(Len(s) - 1) : s[i] <= s[i + 1]
Increasing(s) == \A i \in 1..(Len(s) - 1) : s[i] < s[i + 1]

\* C3: for a valid index file there is one timecode per frame block between
\* the markers, the timecodes do not decrease, and every keyframe is the
\* zero-based place of one of the frames.
C3_OnePerFrameOrdered ==
    (pc = "done" /\ ValidIndex(arg)) =>
        /\ ret.kind = "ok"
        /\ Len(ret.val.timecodes) = Cardinality(BlockPlaces(arg))
        /\ NonDecreasing(ret.val.timecodes)
        /\ \A j \in 1..Len(ret.val.keyframes) :
              0 <= ret.val.keyframes[j] /\ ret.val.keyframes[j] < Cardinality(BlockPlaces(arg))

\* three frames out of PTS order, negative PTS under a time base that rounds
C3_Witness ==
    /\ pc = "done"
    /\ arg = WrittenFile(<<OtherLine>>, Tb_1_3,
                         <<[pts |-> 20, key |-> 1], [pts |-> -1, key |-> 1],
                           [pts |-> 0, key |-> 0]>>)
    /\ ret.val.timecodes = <<-334, 0, 6666>>
    /\ ret.val.keyframes = <<0, 2>>

Orderings(n) == {p \in [1..n -> 1..n] : \A i, j \in 1..n : p[i] = p[j] => i = j}

\* floor(pts * 1000 * num / den), den > 0: the largest q with q * den <= pts * 1000 * num
IsFloor(q, pts, num, den) ==
    q * den <= pts * 1000 * num /\ pts * 1000 * num < (q + 1) * den

\* C4: for a valid index file, timecodes[i] is floor(pts * 1000 * num / den)
\* of the i-th frame in an ordering of the frames by ascending PTS, and
\* keyframes lists, increasing, exactly the zero-based places in that
\* ordering of the frames whose Key is not 0 (time base 1/1000, PTS 0,40,20,
\* Key 1,0,0 gives timecodes [0,20,40] and keyframes [0]).
C4_TimecodesAndKeyframes ==
    (pc = "done" /\ ValidIndex(arg)) =>
        LET fr == FileFrames(arg)
            n == Len(fr)
            num == Numerator(TimeBaseOf(arg))
            den == Denominator(TimeBaseOf(arg))
        IN  /\ ret.kind = "ok"
            /\ \E p \in Orderings(n) :
                  /\ NonDecreasing([i \in 1..n |-> fr[p[i]].pts])
                  /\ Len(ret.val.timecodes) = n
                  /\ \A i \in 1..n : IsFloor(ret.val.timecodes[i], fr[p[i]].pts, num, den)
                  /\ Increasing(ret.val.keyframes)
                  /\ {ret.val.keyframes[j] : j \in 1..Len(ret.val.keyframes)}
                        = {i - 1 : i \in {i \in 1..n : fr[p[i]].key # 0}}
            /\ (TimeBaseOf(arg) = Tb_1_1000
                  /\ fr = <<[pts |-> 0, key |-> 1], [pts |-> 40, key |-> 0],
                            [pts |-> 20, key |-> 0]>>)
                 => ret.val = [timecodes |-> <<0, 20, 40>>, keyframes |-> <<0>>]

C4_Witness ==
    /\ pc = "done"
    /\ arg = WrittenFile(<<OtherLine>>, Tb_1_1000,
                         <<[pts |-> 0, key |-> 1], [pts |-> 40, key |-> 0],
                           [pts |-> 20, key |-> 0]>>)
    /\ ret = Return([timecodes |-> <<0, 20, 40>>, keyframes |-> <<0>>])

\* the 1-based place of frame a of the file in the order that sorts by PTS
\* and keeps frames of equal PTS in the order of the file
StablePlace(fr, a) ==
    Cardinality({b \in 1..Len(fr) : fr[b].pts < fr[a].pts})
      + Cardinality({b \in 1..a : fr[b].pts = fr[a].pts})

\* C5: frames of equal PTS keep the order of the file: the keyframes are
\* the places of the keyed frames in the ordering by PTS in which, of two
\* frames with the same PTS, the one earlier in the file comes first.
C5_EqualPtsKeepFileOrder ==
    (pc = "done" /\ ValidIndex(arg)) =>
        LET fr == FileFrames(arg)
        IN  /\ ret.kind = "ok"
            /\ {ret.val.keyframes[j] : j \in 1..Len(ret.val.keyframes)}
                  = {StablePlace(fr, a) - 1 : a \in {a \in 1..Len(fr) : fr[a].key # 0}}

\* two frames of equal PTS, only the later one in the file a keyframe
C5_Witness ==
    /\ pc = "done"
    /\ arg = WrittenFile(<<OtherLine>>, Tb_1_3,
                         <<[pts |-> 20, key |-> 0], [pts |-> 20, key |-> 1],
                           [pts |-> 0, key |-> 0]>>)
    /\ ret.val.keyframes = <<2>>

\* the index data is malformed
Malformed(f) ==
    \/ ~HasMarkers(f)
    \/ HasMarkers(f) /\ \E i \in BlockPlaces(f) : ~BlockMatches(f, i)
    \/ FirstPlace(f, StreamInfoEnd) > 1 /\ ~HasStreamInfoLine(f)
    \/ HasStreamInfoLine(f) /\ ~IsRational(TimeBaseOf(f))
    \/ HasStreamInfoLine(f) /\ IsRational(TimeBaseOf(f))
                            /\ Denominator(TimeBaseOf(f)) = 0

\* C6: on malformed index data (a marker missing, a frame block that does
\* not match, a line before "</StreamInfo>" that is no StreamInfo line, a
\* TimeBase that is not <numerator>/<non-zero denominator>) the call raises
\* ValueError: it returns nothing and raises nothing else.
C6_MalformedRaisesValueError ==
    (pc = "done" /\ Malformed(arg)) => ret = Raise("ValueError")

\* ------------------------------------------------------------------------
\* Properties of check_audio

\* C8: check_audio raises nothing when the prober is missing or fails: it
\* returns False when core has no bas plugin and when bas cannot open the
\* file, and True exactly when bas opens it.
C8_CheckAudioNeverRaises ==
    arg.op = "check_audio" =>
        /\ ret.kind = "ok"
        /\ ret.val \in BOOLEAN
        /\ "bas" \notin plugins => ret.val = FALSE
        /\ ("bas" \in plugins /\ ~arg.opens) => ret.val = FALSE
        /\ ret.val = TRUE <=> ("bas" \in plugins /\ arg.opens)

C8_Witness ==
    /\ arg.op = "check_audio"
    /\ "bas" \notin plugins
    /\ arg.opens
    /\ ret = Return(FALSE)

\* ------------------------------------------------------------------------
\* Properties of make_keyframes

IsGetKeyframes ==
    \E filename \in VideoNames, clip \in Clips(MaxClipFrames), use_scxvid \in BOOLEAN :
        \E flags \in FlagsOf(clip) : GetKeyframes(filename, clip, use_scxvid, flags)

\* C10: in every call of get_keyframes, the detector runs and the keyframes
\* file is written only if the file is absent; a file that exists is never
\* changed, by any call, and no detector runs for it; a call in which
\* make_keyframes fails creates no file, so that the next call tries again;
\* a call that succeeds returns make_keyframes_filename(filename), and the
\* file then exists.
C10_KeyframesFileMadeOnce ==
    [][/\ \A p \in DOMAIN fs : p \in DOMAIN fs' /\ fs'[p] = fs[p]
       /\ IsGetKeyframes =>
            LET kf == make_keyframes_filename(arg'.filename)
            IN  /\ kf \in DOMAIN fs => (fs' = fs /\ ~ran' /\ ret'.kind = "ok")
                /\ ran' => kf \notin DOMAIN fs
                /\ fs' # fs => (ran' /\ DOMAIN fs' = DOMAIN fs \cup {kf})
                /\ ret'.kind = "raise" => (fs' = fs /\ kf \notin DOMAIN fs')
                /\ kf \notin DOMAIN fs => (ran' \/ ret'.kind = "raise")
                /\ ret'.kind = "ok" => (ret'.val = kf /\ kf \in DOMAIN fs')]_vars

\* a call that found the file there: nothing ran, the name came back
C10_Witness ==
    /\ arg.op = "get_keyframes"
    /\ ret = Return(make_keyframes_filename(arg.filename))
    /\ ~ran
    /\ make_keyframes_filename(arg.filename) \in DOMAIN fs
    /\ Len(fs[make_keyframes_filename(arg.filename)]) > 2

====
